---- MODULE Spec2Model ----
(***************************************************************************)
(* A model of job_main.py: the one-shot video assembly job `process`.      *)
(*                                                                         *)
(* The job is a straight-line script inside one scoped temporary           *)
(* directory.  Every external call (Drive / object-store download,         *)
(* ffprobe, ffmpeg, the three uploads) is one step of the model; each may  *)
(* raise, and an exception unwinds through the `with` block.  What the     *)
(* remote objects look like (their sizes, streams, geometry, durations) is *)
(* fixed before the job starts and is held in `remote`; the process        *)
(* environment variables are held in `env`.                                *)
(*                                                                         *)
(* Strings that the code inspects character by character (the Drive url)   *)
(* are sequences of one-character strings.  Durations are counted in ticks *)
(* of 1/TicksPerSec second.                                                *)
(***************************************************************************)
EXTENDS Integers, Sequences, FiniteSets, TLC

VARIABLES
    drive_url,      \* argument of process: the url or id, a sequence of characters
    yt_title,       \* argument of process: TRUE when a non-empty title was given
    env,            \* the environment variables read at import (lines 16-21)
    remote,         \* what the downloads and probes will find
    pc,             \* position of process
    fid,            \* the parsed Drive file id
    td,             \* TRUE while the temporary directory exists
    files,          \* names of the files inside the temporary directory
    dlsize,         \* size on disk of each downloaded file
    main,           \* the file the local variable `main` names
    info,           \* per version of the main clip: audio stream present, geometry
    main_dur,       \* get_duration(main), in ticks
    music_dur,      \* get_duration(music), in ticks
    loops,          \* the -stream_loop argument
    music_looped,   \* duration of music_looped.mp3, in ticks
    result,         \* the result record printed at the end
    uploadsStarted, \* sinks whose upload function has been called
    error,          \* the exception raised, if any
    stage           \* per pipeline stage: pending, running, done or failed

vars == << drive_url, yt_title, env, remote, pc, fid, td, files, dlsize, main,
           info, main_dur, music_dur, loops, music_looped, result,
           uploadsStarted, error, stage >>

Null == "null"
NoError == "none"
NoVal == -1
\* parse_drive_id found no id (a matched id is never empty)
NoId == << >>

(***************************************************************************)
(* Bounds of the model.                                                    *)
(***************************************************************************)
\* ticks per second of the duration grid (2: half seconds)
TicksPerSec == 2
\* longest main clip, in ticks
MaxMainTicks == 12
\* longest music bed, in ticks
MaxMusicTicks == 8
\* how many characters longer than the minimum a bare id may be
ExtraIdLen == 1

(***************************************************************************)
(* Program constants.                                                      *)
(***************************************************************************)
MinIdLen == 20
CanonW == 1920
CanonH == 1080
PassHeight == 720
\* The minimum-size floor of a download as the specification words it
\* (about 1MB); job_main.py has no such number.
MinSizeFloor == 1048576

Min(a, b) == IF a <= b THEN a ELSE b
Max(a, b) == IF a >= b THEN a ELSE b

(***************************************************************************)
(* parse_drive_id (lines 65-71).                                           *)
(***************************************************************************)
\* the part of  [A-Za-z0-9_-]  that occurs in the inputs; every other
\* character of an input ("/", "?", "&", "=", ".", ":") is outside the class
IdChars == {"a", "Z", "d", "e", "f", "i", "l", "v", "w", "x", "7", "_", "-"}

\* re.fullmatch(r"[A-Za-z0-9_-]{20,}", s)
FullMatchId(s) ==
    /\ Len(s) >= MinIdLen
    /\ \A i \in 1..Len(s) : s[i] \in IdChars

\* whether literal `lit` occurs in s at position i
LitAt(s, lit, i) ==
    /\ i + Len(lit) - 1 <= Len(s)
    /\ \A k \in 1..Len(lit) : s[i + k - 1] = lit[k]

\* the greedy run  ([A-Za-z0-9_-]+)  starting at position i: its last index,
\* i - 1 when the run is empty
RECURSIVE RunEnd(_, _)
RunEnd(s, i) ==
    IF i <= Len(s) /\ s[i] \in IdChars THEN RunEnd(s, i + 1) ELSE i - 1

\* re.search(lit + "([A-Za-z0-9_-]+)", s): the leftmost position where the
\* literal is followed by at least one id character; group(1), or NoId
RECURSIVE SearchFrom(_, _, _)
SearchFrom(s, lits, i) ==
    IF i > Len(s) THEN NoId
    ELSE IF \E lit \in lits :
                /\ LitAt(s, lit, i)
                /\ RunEnd(s, i + Len(lit)) >= i + Len(lit)
         THEN LET lit == CHOOSE l \in lits :
                            /\ LitAt(s, l, i)
                            /\ RunEnd(s, i + Len(l)) >= i + Len(l)
              IN  SubSeq(s, i + Len(lit), RunEnd(s, i + Len(lit)))
         ELSE SearchFrom(s, lits, i + 1)

PathLit == << "/", "f", "i", "l", "e", "/", "d", "/" >>
QueryLits == { << "?", "i", "d", "=" >>, << "&", "i", "d", "=" >> }

\* re.search(r"/file/d/([A-Za-z0-9_-]+)", s)
SearchPath(s) == SearchFrom(s, {PathLit}, 1)

\* the query search without its leading [?&]
SearchQueryLoose(s) == SearchFrom(s, { << "i", "d", "=" >> }, 1)

\* re.search(r"[?&]id=([A-Za-z0-9_-]+)", s)
SearchQuery(s) == SearchFrom(s, QueryLits, 1)

\* the value returned, or NoId when ValueError is raised
parse_drive_id(s) ==
    IF FullMatchId(s) THEN s
    ELSE IF SearchPath(s) # NoId THEN SearchPath(s)
    ELSE SearchQuery(s)

(***************************************************************************)
(* The ffmpeg filter chain of lines 210, 230 and 241:                      *)
(*   scale=1920:1080:force_original_aspect_ratio=decrease,                 *)
(*   pad=1920:1080:(ow-iw)/2:(oh-ih)/2                                     *)
(***************************************************************************)
\* a * b / c rounded to the nearest integer
Rescale(a, b, c) == (2 * a * b + c) \div (2 * c)

\* scale with force_original_aspect_ratio=decrease: the frame shrinks or grows
\* to fit inside the box, keeping its aspect ratio
ScaleDecrease(res) ==
    << Min(Rescale(CanonH, res[1], res[2]), CanonW),
       Min(Rescale(CanonW, res[2], res[1]), CanonH) >>

\* pad=1920:1080:...: pad rejects an input larger than the box
PadFits(res) == res[1] <= CanonW /\ res[2] <= CanonH

\* the output frame of pad is the box; the input sits at ((ow-iw)/2, (oh-ih)/2)
PadCanon(res) == << CanonW, CanonH >>

\* the geometry of the output of the chain
ScalePadFilter(res) == PadCanon(ScaleDecrease(res))

\* line 208: the scaling pass runs unless the probed height is 720
NeedsScaling(res) == res[2] # PassHeight

\* the scaling pass writing no audio stream, as "-an" does
ScaledAudioDropped(a) == FALSE

\* lines 217: "-c:a aac" re-encodes the audio stream of the input, if any
ScaledAudio(a) == a

\* an emptiness test that never fires
IsEmptyFileNever(sz) == sz < 0

\* lines 81, 88, 195: the emptiness test on a downloaded file
IsEmptyFile(sz) == sz = 0

(***************************************************************************)
(* The music bed, lines 285-302.  Durations are in ticks.                  *)
(***************************************************************************)
\* line 285: the music is re-encoded as it is
MusicAsIs(md, ud) == ud >= md \/ md = 0

\* line 294: max(1, int((main_dur // max(1.0, music_dur)) + 1))
LoopCount(md, ud) == Max(1, (md \div Max(TicksPerSec, ud)) + 1)

\* -stream_loop n plays the input n more times after the first
LoopedMaterial(n, ud) == (n + 1) * ud

\* line 299: "-t main_dur + 1" cuts the output, which ends earlier when the
\* looped input does
TrimmedDuration(md, ud) ==
    Min(LoopedMaterial(LoopCount(md, ud), ud), md + TicksPerSec)

(***************************************************************************)
(* The inputs of a job.                                                    *)
(***************************************************************************)
IdAlphabet == << "a", "Z", "7", "_", "-" >>

\* an id of n characters
IdBody(n) == [i \in 1..n |-> IdAlphabet[((i - 1) % Len(IdAlphabet)) + 1]]

IdLengths == {0, 1, MinIdLen - 1, MinIdLen} \cup (MinIdLen + 1 .. MinIdLen + ExtraIdLen)

UrlPrefixes ==
    { << >>,
      PathLit,
      << "x" >> \o PathLit,
      << "x", "?", "i", "d", "=" >>,
      << "x", "&", "i", "d", "=" >>,
      << "x", "i", "d", "=" >>,
      << "/", "f", "i", "l", "e", "/", "d" >> }

UrlSuffixes ==
    { << >>,
      << "/", "v", "i", "e", "w" >>,
      << "." >>,
      << "&", "i", "d", "=", "Z", "7" >> }

Inputs == { p \o IdBody(n) \o q : p \in UrlPrefixes, n \in IdLengths, q \in UrlSuffixes }

DlNames == {"main.mp4", "background.mp4", "outro.mp4", "music.mp3"}

SizeChoices == {0, 1, MinSizeFloor}

Resolutions ==
    { << 1920, 1080 >>, << 1280, 720 >>, << 960, 720 >>, << 500, 800 >>,
      << 3840, 2160 >>, << 640, 480 >>, << 1920, 800 >> }

\* the durations probed, << main, music >>, in ticks: a grid that starts below
\* one second, and the 130 s clip with the 40 s music bed.  A main duration of
\* 0 is what get_duration reports when the container states none.
DurationGrid ==
    ((0..MaxMainTicks) \X (1..MaxMusicTicks))
        \cup { << 130 * TicksPerSec, 40 * TicksPerSec >> }

Envs == [skip : BOOLEAN, folder : BOOLEAN, bucket : BOOLEAN, prefix : BOOLEAN]

BaseUrl == IdBody(MinIdLen)

BaseEnv == [skip |-> FALSE, folder |-> TRUE, bucket |-> TRUE, prefix |-> TRUE]

BaseRemote ==
    [size |-> [f \in DlNames |-> MinSizeFloor], audio |-> TRUE, video |-> TRUE,
     res |-> << 1920, 1080 >>, main_dur |-> 2 * TicksPerSec, music_dur |-> TicksPerSec]

\* the jobs explored: each family varies one group of inputs over its whole
\* grid and holds the others at the base values
Scenarios ==
    { [url |-> u, title |-> TRUE, env |-> BaseEnv, remote |-> BaseRemote] :
        u \in Inputs }
    \cup
    { [url |-> BaseUrl, title |-> t, env |-> e, remote |-> BaseRemote] :
        t \in BOOLEAN, e \in Envs }
    \cup
    { [url |-> BaseUrl, title |-> FALSE, env |-> BaseEnv,
       remote |-> [BaseRemote EXCEPT !.size = sz]] :
        sz \in [DlNames -> SizeChoices] }
    \cup
    { [url |-> BaseUrl, title |-> FALSE, env |-> BaseEnv,
       remote |-> [BaseRemote EXCEPT !.audio = a, !.video = v, !.res = r]] :
        a \in BOOLEAN, v \in BOOLEAN, r \in Resolutions }
    \cup
    { [url |-> BaseUrl, title |-> FALSE, env |-> BaseEnv,
       remote |-> [BaseRemote EXCEPT !.main_dur = md, !.music_dur = ud]] :
        << md, ud >> \in DurationGrid }

(***************************************************************************)
(* The stages of the pipeline, in order.  Identifier extraction and the    *)
(* downloads are acquisition; the has_audio probe is the inspection of     *)
(* main; lines 200-220 are normalization; the duration probes belong to    *)
(* audio composition.                                                      *)
(***************************************************************************)
StageOrder ==
    << "acquisition", "inspection", "normalization", "prescaling",
       "video_composition", "audio_composition", "mux", "publication" >>

Stages == { StageOrder[i] : i \in 1..Len(StageOrder) }

Sinks == {"drive", "gcs", "youtube"}

\* the files the variable `main` names in turn (lines 177, 201, 209)
MainVersions == {"main.mp4", "main_with_audio.mp4", "main_1080.mp4"}

NoInfo == [audio |-> FALSE, video |-> FALSE, res |-> << 0, 0 >>]

Init ==
    \E sc \in Scenarios :
        /\ drive_url = sc.url
        /\ yt_title = sc.title
        /\ env = sc.env
        /\ remote = sc.remote
        /\ pc = "start"
        /\ fid = NoId
        /\ td = FALSE
        /\ files = {}
        /\ dlsize = [f \in DlNames |-> NoVal]
        /\ main = Null
        /\ info = [f \in MainVersions |-> NoInfo]
        /\ main_dur = NoVal
        /\ music_dur = NoVal
        /\ loops = NoVal
        /\ music_looped = NoVal
        /\ result = [s \in Sinks |-> Null]
        /\ uploadsStarted = {}
        /\ error = NoError
        /\ stage = [s \in Stages |-> "pending"]

inputs == << drive_url, yt_title, env, remote >>
audio_vars == << main_dur, music_dur, loops, music_looped >>
pub_vars == << result, uploadsStarted >>

\* an exception leaves the step: it unwinds through the `with` block
Raise(e, st) ==
    /\ error' = e
    /\ pc' = "unwind"
    /\ stage' = [stage EXCEPT ![st] = "failed"]

Mark(st, val) == stage' = [stage EXCEPT ![st] = val]

\* run_ffmpeg returning on a non-zero exit instead of raising
FfmpegStepSwallow(here, next, out, st, val) ==
    /\ pc = here
    /\ \/ /\ pc' = next
          /\ files' = files \cup {out}
          /\ Mark(st, val)
          /\ UNCHANGED error
       \/ /\ pc' = next
          /\ Mark(st, "failed")
          /\ UNCHANGED << files, error >>
    /\ UNCHANGED << inputs, fid, td, dlsize, main, info, audio_vars, pub_vars >>

\* an ffmpeg run that only writes one file: run_ffmpeg returns, or raises on a
\* non-zero or signal exit (lines 51-63)
FfmpegStep(here, next, out, st, val) ==
    /\ pc = here
    /\ \/ /\ pc' = next
          /\ files' = files \cup {out}
          /\ Mark(st, val)
          /\ UNCHANGED error
       \/ /\ Raise("ffmpeg failed", st)
          /\ UNCHANGED files
    /\ UNCHANGED << inputs, fid, td, dlsize, main, info, audio_vars, pub_vars >>

\* line 174
ParseDriveId ==
    /\ pc = "start"
    /\ IF parse_drive_id(drive_url) = NoId
       THEN /\ error' = "ValueError"
            /\ pc' = "raised"
            /\ Mark("acquisition", "failed")
            /\ UNCHANGED fid
       ELSE /\ fid' = parse_drive_id(drive_url)
            /\ pc' = "enter_td"
            /\ Mark("acquisition", "running")
            /\ UNCHANGED error
    /\ UNCHANGED << inputs, td, files, dlsize, main, info, audio_vars, pub_vars >>

\* lines 175-183: the temporary directory is created and the paths are named
EnterTempDir ==
    /\ pc = "enter_td"
    /\ td' = TRUE
    /\ files' = {}
    /\ main' = "main.mp4"
    /\ pc' = "dl_main"
    /\ UNCHANGED << inputs, fid, dlsize, info, audio_vars, pub_vars, error, stage >>

\* a download into `name` (dl_drive, lines 73-82; dl_gcs, lines 84-89): the
\* transfer raises, or the file is written and then tested for emptiness
Download(here, next, name, exc) ==
    /\ pc = here
    /\ \/ /\ Raise(exc, "acquisition")
          /\ UNCHANGED << files, dlsize, info >>
       \/ /\ files' = files \cup {name}
          /\ dlsize' = [dlsize EXCEPT ![name] = remote.size[name]]
          /\ info' = IF name = "main.mp4"
                     THEN [info EXCEPT ![name] = [audio |-> remote.audio,
                                                  video |-> remote.video,
                                                  res |-> remote.res]]
                     ELSE info
          /\ IF IsEmptyFile(remote.size[name])
             THEN Raise("empty download", "acquisition")
             ELSE /\ pc' = next
                  /\ UNCHANGED << error, stage >>
    /\ UNCHANGED << inputs, fid, td, main, audio_vars, pub_vars >>

\* line 186
DlDriveMain == Download("dl_main", "dl_bg", "main.mp4", "drive download failed")

\* line 189
DlGcsBackground == Download("dl_bg", "dl_outro", "background.mp4", "gcs download failed")

\* line 190
DlGcsOutro == Download("dl_outro", "dl_music", "outro.mp4", "gcs download failed")

\* line 191
DlGcsMusic == Download("dl_music", "basic_checks", "music.mp3", "gcs download failed")

\* lines 194-196
BasicChecks ==
    /\ pc = "basic_checks"
    /\ IF \E f \in DlNames : f \notin files \/ IsEmptyFile(dlsize[f])
       THEN Raise("asset missing or empty", "acquisition")
       ELSE /\ pc' = "has_audio"
            /\ Mark("acquisition", "done")
            /\ UNCHANGED error
    /\ UNCHANGED << inputs, fid, td, files, dlsize, main, info, audio_vars, pub_vars >>

\* line 199: has_audio(main)
HasAudio ==
    /\ pc = "has_audio"
    /\ \/ Raise("ffprobe failed", "inspection")
       \/ /\ pc' = IF info[main].audio THEN "probe_res" ELSE "add_silent"
          /\ Mark("inspection", "done")
          /\ UNCHANGED error
    /\ UNCHANGED << inputs, fid, td, files, dlsize, main, info, audio_vars, pub_vars >>

\* lines 200-203 and add_silent_audio (116-126): the video stream is copied and
\* a silent stereo track is encoded beside it
AddSilentAudio ==
    /\ pc = "add_silent"
    /\ \/ /\ Raise("ffmpeg failed", "normalization")
          /\ UNCHANGED << files, main, info >>
       \/ /\ files' = files \cup {"main_with_audio.mp4"}
          /\ info' = [info EXCEPT !["main_with_audio.mp4"] =
                                      [info[main] EXCEPT !.audio = TRUE]]
          /\ main' = "main_with_audio.mp4"
          /\ pc' = "probe_res"
          /\ Mark("normalization", "running")
          /\ UNCHANGED error
    /\ UNCHANGED << inputs, fid, td, dlsize, audio_vars, pub_vars >>

\* lines 206-208 and get_video_resolution (102-109)
ProbeResolution ==
    /\ pc = "probe_res"
    /\ \/ Raise("ffprobe failed", "normalization")
       \/ IF ~info[main].video
          THEN Raise("no video stream", "normalization")
          ELSE /\ pc' = IF NeedsScaling(info[main].res) THEN "scale_main" ELSE "prescale_bg"
               /\ Mark("normalization",
                       IF NeedsScaling(info[main].res) THEN "running" ELSE "done")
               /\ UNCHANGED error
    /\ UNCHANGED << inputs, fid, td, files, dlsize, main, info, audio_vars, pub_vars >>

\* lines 208-220
ScaleMain ==
    /\ pc = "scale_main"
    /\ \/ /\ Raise("ffmpeg failed", "normalization")
          /\ UNCHANGED << files, main, info >>
       \/ /\ PadFits(ScaleDecrease(info[main].res))
          /\ files' = files \cup {"main_1080.mp4"}
          /\ info' = [info EXCEPT !["main_1080.mp4"] =
                                      [audio |-> ScaledAudio(info[main].audio),
                                       video |-> TRUE,
                                       res |-> ScalePadFilter(info[main].res)]]
          /\ main' = "main_1080.mp4"
          /\ pc' = "prescale_bg"
          /\ Mark("normalization", "done")
          /\ UNCHANGED error
    /\ UNCHANGED << inputs, fid, td, dlsize, audio_vars, pub_vars >>

\* lines 226-234
PrescaleBackground ==
    FfmpegStep("prescale_bg", "prescale_outro", "background_1080.mp4", "prescaling", "running")

\* lines 236-245
PrescaleOutro ==
    FfmpegStep("prescale_outro", "compose_video", "outro_1080.mp4", "prescaling", "done")

\* lines 250-269
ComposeVideo ==
    FfmpegStep("compose_video", "probe_dur", "composed_video.mp4", "video_composition", "done")

\* lines 275-282: get_duration of main and of the music bed
ProbeDurations ==
    /\ pc = "probe_dur"
    /\ \/ /\ Raise("ffprobe failed", "audio_composition")
          /\ UNCHANGED << main_dur, music_dur >>
       \/ /\ main_dur' = remote.main_dur
          /\ music_dur' = remote.music_dur
          /\ pc' = "prepare_music"
          /\ Mark("audio_composition", "running")
          /\ UNCHANGED error
    /\ UNCHANGED << inputs, fid, td, files, dlsize, main, info, loops, music_looped,
                    pub_vars >>

\* lines 284-302
PrepareMusic ==
    /\ pc = "prepare_music"
    /\ \/ /\ Raise("ffmpeg failed", "audio_composition")
          /\ UNCHANGED << files, loops, music_looped >>
       \/ /\ IF MusicAsIs(main_dur, music_dur)
             THEN /\ loops' = 0
                  /\ music_looped' = music_dur
             ELSE /\ loops' = LoopCount(main_dur, music_dur)
                  /\ music_looped' = TrimmedDuration(main_dur, music_dur)
          /\ files' = files \cup {"music_looped.mp3"}
          /\ pc' = "mix_audio"
          /\ UNCHANGED << error, stage >>
    /\ UNCHANGED << inputs, fid, td, dlsize, main, info, main_dur, music_dur, pub_vars >>

\* lines 304-314: amix of input 0 (main) and input 1 (the music); without an
\* audio stream in main the filter graph has no first input and ffmpeg fails
MixAudio ==
    /\ pc = "mix_audio"
    /\ \/ /\ Raise("ffmpeg failed", "audio_composition")
          /\ UNCHANGED files
       \/ /\ info[main].audio
          /\ files' = files \cup {"composed_audio.aac"}
          /\ pc' = "mux"
          /\ Mark("audio_composition", "done")
          /\ UNCHANGED error
    /\ UNCHANGED << inputs, fid, td, dlsize, main, info, audio_vars, pub_vars >>

\* lines 316-325
Mux == FfmpegStep("mux", "upload_drive", "final_output.mp4", "mux", "done")

\* line 330
DriveEnabled == ~env.skip

\* line 129
DriveFolderMissing == ~env.folder

\* the object-store upload guarded by the bucket alone
GcsEnabledBucketOnly == env.bucket

\* line 333
GcsEnabled == env.bucket /\ env.prefix

\* the bucket test of upload_gcs inverted
GcsBucketMissingInverted == env.bucket

\* line 145
GcsBucketMissing == ~env.bucket

\* line 338
YoutubeEnabled == yt_title

\* lines 334-335 and 149: the object is named after the Drive file when there
\* is one, after the local file otherwise
GcsUri == IF result["drive"] # Null THEN "gs://bucket/prefix/drive_id.mp4"
                                    ELSE "gs://bucket/prefix/final_output.mp4"

\* lines 328-331 and upload_drive (128-142)
UploadDrive ==
    /\ pc = "upload_drive"
    /\ \/ /\ ~DriveEnabled
          /\ pc' = "upload_gcs"
          /\ Mark("publication", "running")
          /\ UNCHANGED << result, uploadsStarted, error >>
       \/ /\ DriveEnabled
          /\ uploadsStarted' = uploadsStarted \cup {"drive"}
          /\ IF DriveFolderMissing
             THEN /\ Raise("drive folder unset", "publication")
                  /\ UNCHANGED result
             ELSE \/ /\ Raise("drive upload failed", "publication")
                     /\ UNCHANGED result
                  \/ /\ result' = [result EXCEPT !["drive"] = "drive_resp"]
                     /\ pc' = "upload_gcs"
                     /\ Mark("publication", "running")
                     /\ UNCHANGED error
    /\ UNCHANGED << inputs, fid, td, files, dlsize, main, info, audio_vars >>

\* lines 333-336 and upload_gcs (144-149)
UploadGcs ==
    /\ pc = "upload_gcs"
    /\ \/ /\ ~GcsEnabled
          /\ pc' = "upload_youtube"
          /\ UNCHANGED << result, uploadsStarted, error, stage >>
       \/ /\ GcsEnabled
          /\ uploadsStarted' = uploadsStarted \cup {"gcs"}
          /\ IF GcsBucketMissing
             THEN /\ result' = [result EXCEPT !["gcs"] = Null]
                  /\ pc' = "upload_youtube"
                  /\ UNCHANGED << error, stage >>
             ELSE \/ /\ Raise("gcs upload failed", "publication")
                     /\ UNCHANGED result
                  \/ /\ result' = [result EXCEPT !["gcs"] = GcsUri]
                     /\ pc' = "upload_youtube"
                     /\ UNCHANGED << error, stage >>
    /\ UNCHANGED << inputs, fid, td, files, dlsize, main, info, audio_vars >>

\* lines 338-339 and upload_youtube (151-170); a failure of the thumbnail call
\* is swallowed (lines 165-169) and changes nothing
UploadYoutube ==
    /\ pc = "upload_youtube"
    /\ \/ /\ ~YoutubeEnabled
          /\ pc' = "print"
          /\ UNCHANGED << result, uploadsStarted, error, stage >>
       \/ /\ YoutubeEnabled
          /\ uploadsStarted' = uploadsStarted \cup {"youtube"}
          /\ \/ /\ Raise("youtube upload failed", "publication")
                /\ UNCHANGED result
             \/ /\ result' = [result EXCEPT !["youtube"] = "youtube_resp"]
                /\ pc' = "print"
                /\ UNCHANGED << error, stage >>
    /\ UNCHANGED << inputs, fid, td, files, dlsize, main, info, audio_vars >>

\* line 341
PrintResult ==
    /\ pc = "print"
    /\ pc' = "exit_td"
    /\ Mark("publication", "done")
    /\ UNCHANGED << inputs, fid, td, files, dlsize, main, info, audio_vars, pub_vars,
                    error >>

\* a directory that is removed only when the block ends normally
ExitTempDirLeaky ==
    /\ pc \in {"exit_td", "unwind"}
    /\ td' = (pc = "unwind")
    /\ files' = IF pc = "unwind" THEN files ELSE {}
    /\ pc' = IF pc = "unwind" THEN "raised" ELSE "returned"
    /\ UNCHANGED << inputs, fid, dlsize, main, info, audio_vars, pub_vars, error, stage >>

\* line 175: leaving the `with` block, by falling off its end or by an
\* exception, removes the directory and everything in it
ExitTempDir ==
    /\ pc \in {"exit_td", "unwind"}
    /\ td' = FALSE
    /\ files' = {}
    /\ pc' = IF pc = "unwind" THEN "raised" ELSE "returned"
    /\ UNCHANGED << inputs, fid, dlsize, main, info, audio_vars, pub_vars, error, stage >>

Next ==
    \/ ParseDriveId
    \/ EnterTempDir
    \/ DlDriveMain
    \/ DlGcsBackground
    \/ DlGcsOutro
    \/ DlGcsMusic
    \/ BasicChecks
    \/ HasAudio
    \/ AddSilentAudio
    \/ ProbeResolution
    \/ ScaleMain
    \/ PrescaleBackground
    \/ PrescaleOutro
    \/ ComposeVideo
    \/ ProbeDurations
    \/ PrepareMusic
    \/ MixAudio
    \/ Mux
    \/ UploadDrive
    \/ UploadGcs
    \/ UploadYoutube
    \/ PrintResult
    \/ ExitTempDir

Spec == Init /\ [][Next]_vars

(***************************************************************************)
(* Properties.                                                             *)
(***************************************************************************)
Finished == pc \in {"returned", "raised"}

\* what the configuration says about each sink, read off the inputs
SinkConfigured(s) ==
    CASE s = "drive" -> ~env.skip /\ env.folder
      [] s = "gcs" -> env.bucket /\ env.prefix
      [] s = "youtube" -> yt_title

ConfiguredSinks == { s \in Sinks : SinkConfigured(s) }

UploadErrors == {"drive upload failed", "gcs upload failed", "youtube upload failed"}

\* C1: when two or more sinks are enabled and the upload to one of them
\* fails, every other enabled sink has still been uploaded to and its result
\* recorded by the time the job ends.
C1_SinkFailureDoesNotBlockOthers ==
    (Finished /\ Cardinality(ConfiguredSinks) >= 2 /\ error \in UploadErrors)
        => \A s \in ConfiguredSinks :
              /\ s \in uploadsStarted
              /\ (result[s] = Null
                    => error = CASE s = "drive" -> "drive upload failed"
                                 [] s = "gcs" -> "gcs upload failed"
                                 [] s = "youtube" -> "youtube upload failed")

\* C2: once normalization is done, the main clip handed to composition is
\* exactly 1920x1080, whatever the probed geometry.
C2_MainIsCanonicalAfterNormalization ==
    stage["normalization"] = "done" => info[main].res = << CanonW, CanonH >>

C5_TempDirReclaimed ==
    Finished => ~td /\ files = {}

\* a job that failed in video composition, after the directory held files
C5_Witness ==
    /\ pc = "raised"
    /\ error = "ffmpeg failed"
    /\ stage["video_composition"] = "failed"
    /\ ~td

\* C6: after a successful job a result field is non-null exactly when its
\* sink was configured and attempted; with only the object store configured
\* exactly one field, the object-store one, is non-null.
C6_ResultFields ==
    pc = "returned"
        => /\ \A s \in Sinks :
                /\ result[s] # Null <=> s \in uploadsStarted
                /\ s \in uploadsStarted <=> SinkConfigured(s)
           /\ (env.skip /\ env.bucket /\ env.prefix /\ ~yt_title)
                => { s \in Sinks : result[s] # Null } = {"gcs"}

\* only the object store is configured and the job has returned its URI
C6_Witness ==
    /\ pc = "returned"
    /\ env.skip /\ env.bucket /\ env.prefix /\ ~yt_title
    /\ result["gcs"] = "gs://bucket/prefix/final_output.mp4"

\* the ids an input embeds after `lit`: each maximal run of id characters
\* that directly follows an occurrence of the literal
IdsAfter(u, lit) ==
    { SubSeq(u, i, j) : << i, j >> \in
        { ij \in (1..Len(u)) \X (1..Len(u)) :
            /\ ij[1] > Len(lit)
            /\ ij[1] <= ij[2]
            /\ SubSeq(u, ij[1] - Len(lit), ij[1] - 1) = lit
            /\ \A k \in ij[1]..ij[2] : u[k] \in IdChars
            /\ (ij[2] = Len(u) \/ u[ij[2] + 1] \notin IdChars) } }

IsBareId(u) == Len(u) >= MinIdLen /\ { u[k] : k \in 1..Len(u) } \subseteq IdChars

EmbeddedIds(u) ==
    IdsAfter(u, PathLit) \cup IdsAfter(u, << "?", "i", "d", "=" >>)
        \cup IdsAfter(u, << "&", "i", "d", "=" >>)

\* C7: parse_drive_id returns a bare id unchanged and the embedded id of a
\* url with /file/d/{id} or [?&]id={id}; any other input raises the
\* invalid-identifier error before a download or an external tool has run.
C7_ParseDriveId ==
    pc # "start"
        => /\ IsBareId(drive_url) => fid = drive_url /\ error # "ValueError"
           /\ (~IsBareId(drive_url) /\ EmbeddedIds(drive_url) # {})
                => fid \in EmbeddedIds(drive_url) /\ error # "ValueError"
           /\ (~IsBareId(drive_url) /\ EmbeddedIds(drive_url) = {})
                => /\ error = "ValueError"
                   /\ pc = "raised"
                   /\ fid = NoId
                   /\ ~td /\ files = {}
                   /\ \A f \in DlNames : dlsize[f] = NoVal
                   /\ \A st \in Stages \ {"acquisition"} : stage[st] = "pending"

\* an id shorter than a bare id may be was taken out of a url
C7_Witness ==
    /\ pc = "enter_td"
    /\ fid # drive_url
    /\ Len(fid) = MinIdLen - 1
    /\ fid \in IdsAfter(drive_url, << "?", "i", "d", "=" >>)

\* C8: a stage has started only if every stage before it is done, so the
\* stages start in the fixed order and nothing, no upload either, starts
\* after a failure; the background is pre-scaled before the outro.
C8_StageOrder ==
    /\ \A i, j \in 1..Len(StageOrder) :
          (i < j /\ stage[StageOrder[j]] # "pending") => stage[StageOrder[i]] = "done"
    /\ (\E st \in Stages : stage[st] = "failed")
          => error # NoError /\ pc \in {"unwind", "raised"}
    /\ error # NoError => pc \in {"unwind", "raised"}
    /\ stage["publication"] = "pending" => uploadsStarted = {}
    /\ "outro_1080.mp4" \in files => "background_1080.mp4" \in files

\* video composition failed and the job has raised with the later stages
\* never started
C8_Witness ==
    /\ pc = "raised"
    /\ stage["video_composition"] = "failed"
    /\ stage["prescaling"] = "done"
    /\ stage["audio_composition"] = "pending"

Ceil(a, b) == (a + b - 1) \div b

\* C9: with 0 < music duration < main duration the loop count is at least
\* ceil(main / music), the looped material covers the main duration and the
\* output lasts between main and main + 1 s; otherwise nothing is looped.
C9_MusicLoopCovers ==
    music_looped # NoVal
        => /\ (0 < music_dur /\ music_dur < main_dur)
                => /\ loops >= Ceil(main_dur, music_dur)
                   /\ LoopedMaterial(loops, music_dur) >= main_dur
                   /\ music_looped >= main_dur
                   /\ music_looped <= main_dur + TicksPerSec
           /\ music_dur >= main_dur => loops = 0 /\ music_looped = music_dur

\* C10: whenever the audio mix is about to run, the file `main` names has
\* an audio stream.
C10_MainAudioAtMix ==
    pc = "mix_audio" => info[main].audio

\* the mix is about to run on a clip that got silence and was then scaled
C10_Witness ==
    /\ pc = "mix_audio"
    /\ ~remote.audio
    /\ main = "main_1080.mp4"
    /\ "main_with_audio.mp4" \in files

====
